---- MODULE Spec2Model ----
(***************************************************************************)
(* Model of pkg/notify/email.go: the Email notifier of the notification    *)
(* manager.  Go strings are sequences of one-character strings, Go maps    *)
(* are functions, pointers are indices into heap sequences (0 is nil).     *)
(***************************************************************************)
EXTENDS Integers, Sequences, FiniteSets, TLC

(***************************************************************************)
(* Bounds of the model.  MaxDeliveries bounds the batches of a call, the    *)
(* recipients of a notifier and their product, the deliveries of a call.   *)
(***************************************************************************)
MaxAlerts == 3
MaxSubjectCalls == 2
MaxDeliveries == 4
MaxCalls == 1

(***************************************************************************)
(* String literals of the source, as character sequences.                  *)
(***************************************************************************)
S_namespace == <<"n", "a", "m", "e", "s", "p", "a", "c", "e">>
S_alertname == <<"a", "l", "e", "r", "t", "n", "a", "m", "e">>
S_FiringOpen == <<"[", "F", "I", "R", "I", "N", "G", ":">>
S_ResolvedOpen == <<"[", "R", "E", "S", "O", "L", "V", "E", "D", ":">>
S_Close == <<"]", " ">>
S_ns1 == <<"n", "s", "1">>
S_HighCPU == <<"H", "i", "g", "h", "C", "P", "U">>
S_app == <<"a", "p", "p">>
S_env == <<"e", "n", "v">>
S_job == <<"j", "o", "b">>
S_x == <<"x">>
S_y == <<"y">>

DigitChar == <<"0", "1", "2", "3", "4", "5", "6", "7", "8", "9">>

(* fmt.Sprintf("%d", n) for n >= 0 *)
RECURSIVE Itoa(_)
Itoa(n) ==
    IF n < 10 THEN <<DigitChar[n + 1]>>
    ELSE Itoa(n \div 10) \o <<DigitChar[(n % 10) + 1]>>

HasPrefix(s, p) == Len(s) >= Len(p) /\ SubSeq(s, 1, Len(p)) = p
HasSuffix(s, p) == Len(s) >= Len(p) /\ SubSeq(s, Len(s) - Len(p) + 1, Len(s)) = p

(* strings.TrimSuffix *)
TrimSuffix(s, suffix) ==
    IF HasSuffix(s, suffix) THEN SubSeq(s, 1, Len(s) - Len(suffix)) ELSE s

(* m[k] on a Go map[string]string: the zero value "" for a missing key *)
Lookup(m, k) == IF k \in DOMAIN m THEN m[k] ELSE <<>>

(* the orders in which a range statement may visit the keys of a map *)
RECURSIVE Orders(_)
Orders(keys) ==
    IF keys = {} THEN {<<>>}
    ELSE UNION {{<<k>> \o o : o \in Orders(keys \ {k})} : k \in keys}

RangeOrders(m) == Orders(DOMAIN m)

(* template.Alerts.Firing() and .Resolved() *)
Firing(alerts) == SelectSeq(alerts, LAMBDA a : a.Status = "firing")
Resolved(alerts) == SelectSeq(alerts, LAMBDA a : a.Status = "resolved")

(***************************************************************************)
(* getSubject, statement by statement.                                     *)
(***************************************************************************)
WithFiring(subject, firingNum) ==
    IF firingNum > 0 THEN S_FiringOpen \o Itoa(firingNum) \o S_Close
    ELSE subject

WithResolved_dropsFiring(subject, resolvedNum) ==
    IF resolvedNum > 0 THEN S_ResolvedOpen \o Itoa(resolvedNum) \o S_Close
    ELSE subject

WithResolved(subject, resolvedNum) ==
    IF resolvedNum > 0
    THEN subject \o S_ResolvedOpen \o Itoa(resolvedNum) \o S_Close
    ELSE subject

WithNamespace_noSpace(subject, ns) ==
    IF Len(ns) > 0 THEN subject \o ns ELSE subject

WithNamespace(subject, ns) ==
    IF Len(ns) > 0 THEN subject \o <<" ">> \o ns ELSE subject

WithAlertname_alwaysSlash(subject, ns, alertname) ==
    IF Len(alertname) > 0 THEN subject \o <<"/">> \o alertname ELSE subject

WithAlertname(subject, ns, alertname) ==
    IF Len(alertname) > 0
    THEN IF Len(ns) > 0 THEN subject \o <<"/">> \o alertname
         ELSE subject \o alertname
    ELSE subject

(* the loop over data.CommonLabels, visiting the keys in the given order *)
RECURSIVE RangeLabels(_, _, _, _)
RangeLabels(labels, m, order, i) ==
    IF i > Len(order) THEN labels
    ELSE LET k == order[i]
             v == m[k]
         IN IF k = S_namespace \/ k = S_alertname
            THEN RangeLabels(labels, m, order, i + 1)
            ELSE RangeLabels(labels \o k \o <<"=">> \o v \o <<",">>, m, order, i + 1)

WithLabels(subject, labels) ==
    IF Len(labels) > 0
    THEN subject \o <<" ", "(">> \o TrimSuffix(labels, <<",">>) \o <<")">>
    ELSE subject

getSubject(data, order) ==
    LET ns == Lookup(data.CommonLabels, S_namespace)
        alertname == Lookup(data.CommonLabels, S_alertname)
        firingNum == Len(Firing(data.Alerts))
        resolvedNum == Len(Resolved(data.Alerts))
        s1 == WithFiring(<<>>, firingNum)
        s2 == WithResolved(s1, resolvedNum)
        s3 == WithNamespace(s2, ns)
        s4 == WithAlertname(s3, ns, alertname)
        labels == RangeLabels(<<>>, data.CommonLabels, order, 1)
    IN WithLabels(s4, labels)

(***************************************************************************)
(* The heap.  cfgs holds the config.EmailConfig objects, hmaps the header  *)
(* maps; a pointer is an index, 0 is nil.  The *bool of RequireTLS points  *)
(* into a heap that nothing writes, so only the pointer is kept.           *)
(***************************************************************************)
VARIABLES
    receiver,   \* the value handed to NewEmailNotifier
    failure,    \* how the transport fails in this run when it fails
    opts,       \* the options handed to NewEmailNotifier
    calls,      \* number of Notify calls made so far
    cfgs,       \* heap of EmailConfig structs
    hmaps,      \* heap of header maps
    inst,       \* per slot: the result of NewEmailNotifier
    logs,       \* per slot: level.Error lines written by NewEmailNotifier
    cloned,     \* per slot: what the Clone call of NewEmailNotifier returned
    pc,         \* per slot: position of the Notify call
    data,       \* per slot: argument of the Notify call
    bi,         \* per slot: index of the batch being processed
    ri,         \* per slot: index of the recipient being processed
    as,         \* per slot: alerts built for the current batch
    errs,       \* per slot: the errs slice of the Notify call
    sent,       \* per slot: what the transport was given, call by call
    pre,        \* per slot: the Notifier's config as it was when Notify was called
    sdata,      \* the batch given to getSubject
    subjs       \* results of the successive getSubject calls on sdata

vars == <<receiver, failure, opts, calls, cfgs, hmaps, inst, logs, cloned, pc, data,
          bi, ri, as, errs, sent, pre, sdata, subjs>>
notifyVars == <<receiver, failure, opts, calls, cfgs, hmaps, inst, logs, cloned, pc,
                data, bi, ri, as, errs, sent, pre>>

Instances == {1, 2}
Nil == 0
DefaultSendTimeout == 3
DefaultHTML == "{{ template \"email.default.html\" . }}"

NoMap == <<>>

(* url.Parse on the external URLs of the model: a missing scheme is an error *)
(* a nil *url.URL *)
NilURL == [nil |-> TRUE]

URLParse(s) ==
    IF s = ":bad" THEN [url |-> NilURL, err |-> TRUE]
    ELSE [url |-> [raw |-> s], err |-> FALSE]

kvToLabelSet(obj) == [k \in DOMAIN obj |-> obj[k]]

(***************************************************************************)
(* Clone.  The RequireTLS field is the address of the dereferenced         *)
(* pointer of the base: a nil RequireTLS panics, a non-nil one yields the  *)
(* same pointer.                                                           *)
(***************************************************************************)
Clone_sharesHeaders(ec) ==
    IF ec = Nil THEN [kind |-> "nil"]
    ELSE IF cfgs[ec].RequireTLS = Nil THEN [kind |-> "panic"]
    ELSE [kind |-> "ok",
          cfg |-> [cfgs[ec] EXCEPT !.To = "", !.NotifierConfig = "zero"]]

Clone(ec) ==
    IF ec = Nil THEN [kind |-> "nil"]
    ELSE IF cfgs[ec].RequireTLS = Nil THEN [kind |-> "panic"]
    ELSE [kind |-> "ok",
          cfg |-> [NotifierConfig |-> "zero",
                   To |-> "",
                   From |-> cfgs[ec].From,
                   Hello |-> cfgs[ec].Hello,
                   Smarthost |-> cfgs[ec].Smarthost,
                   AuthUsername |-> cfgs[ec].AuthUsername,
                   AuthPassword |-> cfgs[ec].AuthPassword,
                   AuthSecret |-> cfgs[ec].AuthSecret,
                   AuthIdentity |-> cfgs[ec].AuthIdentity,
                   Headers |-> Nil,
                   HTML |-> cfgs[ec].HTML,
                   Text |-> cfgs[ec].Text,
                   RequireTLS |-> cfgs[ec].RequireTLS,
                   TLSConfig |-> cfgs[ec].TLSConfig]]

(***************************************************************************)
(* NewEmailNotifier(logger, val, opts) for slot i.                         *)
(*   receiver.shape: "Other" (not an Email pointer) or "Email".  Timeouts  *)
(*   are in seconds.  The notifiers are built at startup, one after the    *)
(*   other, before the first Notify call.                                  *)
(***************************************************************************)
NoOpts == [hasEmailTimeout |-> FALSE, Email |-> 0]
OptsSet == {NoOpts, [hasEmailTimeout |-> TRUE, Email |-> 5]}

(* the constructor returned nil; why is the branch that returned it *)
Absent(why) == [state |-> "absent", why |-> why]
Panicked == [state |-> "panic"]

(* lines 51-53: the header map of the new config, allocated when unset *)
EnsureHeaders_missing(h, fresh) == h

EnsureHeaders(h, fresh) == IF h = Nil THEN fresh ELSE h

NewEmailNotifier(i) ==
    /\ inst[i].state = "none"
    /\ \A j \in Instances : j < i => inst[j].state # "none"
    /\ \E tmplErr \in BOOLEAN :
        IF receiver.shape = "Other"
        THEN /\ inst' = [inst EXCEPT ![i] = Absent("shape")]
             /\ logs' = [logs EXCEPT ![i] = @ + 1]
             /\ UNCHANGED <<cfgs, hmaps, cloned>>
        ELSE LET c == Clone(receiver.EmailConfig)
                 id == Len(cfgs) + 1
                 h == EnsureHeaders(c.cfg.Headers, Len(hmaps) + 1)
             IN /\ cloned' = [cloned EXCEPT ![i] = c]
                /\ IF c.kind = "panic"
                   THEN /\ inst' = [inst EXCEPT ![i] = Panicked]
                        /\ UNCHANGED <<logs, cfgs, hmaps>>
                   ELSE IF c.kind = "nil"
                   THEN /\ inst' = [inst EXCEPT ![i] = Absent("config")]
                        /\ logs' = [logs EXCEPT ![i] = @ + 1]
                        /\ UNCHANGED <<cfgs, hmaps>>
                   ELSE /\ cfgs' = Append(cfgs, [c.cfg EXCEPT !.Headers = h,
                                                              !.HTML = DefaultHTML])
                        /\ hmaps' = IF h = Len(hmaps) + 1 THEN Append(hmaps, NoMap)
                                    ELSE hmaps
                        /\ IF tmplErr
                           THEN /\ inst' = [inst EXCEPT ![i] = Absent("template")]
                                /\ logs' = [logs EXCEPT ![i] = @ + 1]
                           ELSE /\ inst' = [inst EXCEPT ![i] =
                                       [state |-> "ready",
                                        To |-> receiver.To,
                                        Config |-> id,
                                        Template |-> [ExternalURL |-> NilURL],
                                        Timeout |-> IF opts.hasEmailTimeout
                                                    THEN opts.Email
                                                    ELSE DefaultSendTimeout]]
                                /\ UNCHANGED logs
    /\ UNCHANGED <<receiver, failure, opts, calls, pc, data, bi, ri, as, errs, sent, pre,
                   sdata, subjs>>

(***************************************************************************)
(* Notify(data) on the Notifier of slot i, one action per step of the      *)
(* loops.  pc: "idle" no call, "batch" at the head of the batch loop,      *)
(* "to" at the first statement of sendEmail, "send" at email.New, "done"   *)
(* returned, "panic".                                                      *)
(***************************************************************************)
Cfg_shared(i) == IF inst[1].state = "ready" THEN inst[1].Config ELSE inst[i].Config

Cfg(i) == inst[i].Config

HeaderView(c) ==
    IF cfgs[c].Headers = Nil THEN [alloc |-> FALSE, m |-> NoMap]
    ELSE [alloc |-> TRUE, m |-> hmaps[cfgs[c].Headers]]

ConfigView(c) == [To |-> cfgs[c].To, Headers |-> HeaderView(c)]

SetKey(m, k, v) == [x \in DOMAIN m \cup {k} |-> IF x = k THEN v ELSE m[x]]

(* lines 70-72: entry of Notify(d) on the Notifier of slot i *)
Enter(i, d) ==
    /\ inst[i].state = "ready"
    /\ pc[i] = "idle"
    /\ pc' = [pc EXCEPT ![i] = "batch"]
    /\ data' = [data EXCEPT ![i] = d]
    /\ bi' = [bi EXCEPT ![i] = 1]
    /\ ri' = [ri EXCEPT ![i] = 1]
    /\ errs' = [errs EXCEPT ![i] = <<>>]
    /\ sent' = [sent EXCEPT ![i] = <<>>]
    /\ pre' = [pre EXCEPT ![i] = ConfigView(Cfg(i))]
    /\ UNCHANGED <<receiver, failure, opts, cfgs, hmaps, inst, logs, cloned, as, sdata, subjs>>

(* a Notify call made while no other call is running *)
Call(i, d) ==
    /\ inst[i].state = "ready"
    /\ \A j \in Instances : pc[j] = "idle" /\ inst[j].state # "none"
    /\ calls < MaxCalls
    /\ Len(d) * Len(inst[i].To) <= MaxDeliveries
    /\ calls' = calls + 1
    /\ Enter(i, d)

(* line 75: both results of url.Parse are assigned, the error is dropped *)
AssignURL_keepOnError(old, parsed) == IF parsed.err THEN old ELSE parsed.url

AssignURL(old, parsed) == parsed.url

(* lines 77-88: one types.Alert per alert of the batch *)
ToAlerts_firingOnly(alerts) ==
    [n \in 1..Len(Firing(alerts)) |->
        [Labels |-> kvToLabelSet(Firing(alerts)[n].Labels),
         Annotations |-> kvToLabelSet(Firing(alerts)[n].Annotations),
         StartsAt |-> Firing(alerts)[n].StartsAt,
         EndsAt |-> Firing(alerts)[n].EndsAt,
         GeneratorURL |-> Firing(alerts)[n].GeneratorURL]]

ToAlerts(alerts) ==
    [n \in 1..Len(alerts) |->
        [Labels |-> kvToLabelSet(alerts[n].Labels),
         Annotations |-> kvToLabelSet(alerts[n].Annotations),
         StartsAt |-> alerts[n].StartsAt,
         EndsAt |-> alerts[n].EndsAt,
         GeneratorURL |-> alerts[n].GeneratorURL]]

(* lines 74-88, and the recipient loop when there is no recipient *)
BeginBatch(i) ==
    /\ pc[i] = "batch"
    /\ bi[i] <= Len(data[i])
    /\ LET d == data[i][bi[i]]
           h == cfgs[Cfg(i)].Headers
       IN IF h = Nil
          THEN /\ pc' = [pc EXCEPT ![i] = "panic"]
               /\ UNCHANGED <<hmaps, inst, as, bi, ri>>
          ELSE /\ \E order \in RangeOrders(d.CommonLabels) :
                    hmaps' = [hmaps EXCEPT ![h] = SetKey(@, "Subject", getSubject(d, order))]
               /\ inst' = [inst EXCEPT ![i].Template.ExternalURL =
                                         AssignURL(@, URLParse(d.ExternalURL))]
               /\ as' = [as EXCEPT ![i] = ToAlerts(d.Alerts)]
               /\ ri' = [ri EXCEPT ![i] = 1]
               /\ IF Len(inst[i].To) = 0
                  THEN /\ bi' = [bi EXCEPT ![i] = @ + 1]
                       /\ UNCHANGED pc
                  ELSE /\ pc' = [pc EXCEPT ![i] = "to"]
                       /\ UNCHANGED bi
    /\ UNCHANGED <<receiver, failure, opts, calls, cfgs, logs, cloned, data, errs, sent, pre, sdata, subjs>>

(* line 91 *)
SetTo_keepsFirst(i) ==
    /\ pc[i] = "to"
    /\ cfgs' = [cfgs EXCEPT ![Cfg(i)].To = IF @ = "" THEN inst[i].To[ri[i]] ELSE @]
    /\ pc' = [pc EXCEPT ![i] = "send"]
    /\ UNCHANGED <<receiver, failure, opts, calls, hmaps, inst, logs, cloned, data, bi, ri, as, errs, sent,
                   pre, sdata, subjs>>

SetTo(i) ==
    /\ pc[i] = "to"
    /\ cfgs' = [cfgs EXCEPT ![Cfg(i)].To = inst[i].To[ri[i]]]
    /\ pc' = [pc EXCEPT ![i] = "send"]
    /\ UNCHANGED <<receiver, failure, opts, calls, hmaps, inst, logs, cloned, data, bi, ri, as, errs, sent,
                   pre, sdata, subjs>>

(* lines 100-103 *)
RecordError_prepend(es, err, failed) == IF failed THEN <<err>> \o es ELSE es

RecordError(es, err, failed) == IF failed THEN Append(es, err) ELSE es

(* e.Notify returns nil or an error; the error is the transport's own or, *)
(* when the context's deadline passes first, the deadline's                *)
FailureKinds == {"error", "timeout"}

(* what e.Notify can return in this run; failure "any" is a transport that *)
(* fails either way                                                        *)
Outcomes == IF failure = "any" THEN {"ok"} \cup FailureKinds ELSE {"ok", failure}

(* line 94: context.WithTimeout(context.Background(), en.Timeout): the     *)
(* seconds the delivery about to be made is given                          *)
ContextWithTimeout_chained(i) == IF sent[i] = <<>> THEN inst[i].Timeout ELSE 0

ContextWithTimeout(i) == inst[i].Timeout

(* lines 104-109: sendEmail returns whatever e.Notify returned and the     *)
(* loops go on to the next recipient, or to the next batch after the last  *)
Advance_retryOnce(i, outcome) ==
    IF outcome = "timeout"
       /\ \A n \in DOMAIN sent[i] : <<sent[i][n].batch, sent[i][n].rcpt>> # <<bi[i], ri[i]>>
    THEN /\ pc' = [pc EXCEPT ![i] = "to"]
         /\ UNCHANGED <<bi, ri>>
    ELSE IF ri[i] < Len(inst[i].To)
    THEN /\ ri' = [ri EXCEPT ![i] = @ + 1]
         /\ pc' = [pc EXCEPT ![i] = "to"]
         /\ UNCHANGED bi
    ELSE /\ bi' = [bi EXCEPT ![i] = @ + 1]
         /\ pc' = [pc EXCEPT ![i] = "batch"]
         /\ UNCHANGED ri

Advance(i, outcome) ==
    IF ri[i] < Len(inst[i].To)
    THEN /\ ri' = [ri EXCEPT ![i] = @ + 1]
         /\ pc' = [pc EXCEPT ![i] = "to"]
         /\ UNCHANGED bi
    ELSE /\ bi' = [bi EXCEPT ![i] = @ + 1]
         /\ pc' = [pc EXCEPT ![i] = "batch"]
         /\ UNCHANGED ri

(* lines 92-104: email.New on en.Config and en.Template, then e.Notify     *)
(* under a context with the timeout; then the next recipient or batch      *)
Deliver_shortCircuit(i) ==
    /\ pc[i] = "send"
    /\ \E outcome \in Outcomes :
        LET c == Cfg(i)
            err == [batch |-> bi[i], rcpt |-> ri[i], to |-> inst[i].To[ri[i]],
                    kind |-> outcome]
        IN /\ sent' = [sent EXCEPT ![i] = Append(@,
                          [batch |-> bi[i], rcpt |-> ri[i],
                           to |-> cfgs[c].To,
                           headers |-> HeaderView(c),
                           url |-> inst[i].Template.ExternalURL,
                           alerts |-> as[i],
                           groupLabels |-> kvToLabelSet(data[i][bi[i]].GroupLabels),
                           receiverName |-> data[i][bi[i]].Receiver,
                           deadline |-> ContextWithTimeout(i),
                           outcome |-> outcome])]
           /\ errs' = [errs EXCEPT ![i] = RecordError(@, err, outcome # "ok")]
           /\ IF outcome # "ok"
              THEN /\ pc' = [pc EXCEPT ![i] = "batch"]
                   /\ bi' = [bi EXCEPT ![i] = Len(data[i]) + 1]
                   /\ UNCHANGED ri
              ELSE IF ri[i] < Len(inst[i].To)
              THEN /\ ri' = [ri EXCEPT ![i] = @ + 1]
                   /\ pc' = [pc EXCEPT ![i] = "to"]
                   /\ UNCHANGED bi
              ELSE /\ bi' = [bi EXCEPT ![i] = @ + 1]
                   /\ pc' = [pc EXCEPT ![i] = "batch"]
                   /\ UNCHANGED ri
    /\ UNCHANGED <<receiver, failure, opts, calls, cfgs, hmaps, inst, logs, cloned, data, as, pre, sdata, subjs>>

Deliver(i) ==
    /\ pc[i] = "send"
    /\ \E outcome \in Outcomes :
        LET c == Cfg(i)
            err == [batch |-> bi[i], rcpt |-> ri[i], to |-> inst[i].To[ri[i]],
                    kind |-> outcome]
        IN /\ sent' = [sent EXCEPT ![i] = Append(@,
                          [batch |-> bi[i], rcpt |-> ri[i],
                           to |-> cfgs[c].To,
                           headers |-> HeaderView(c),
                           url |-> inst[i].Template.ExternalURL,
                           alerts |-> as[i],
                           groupLabels |-> kvToLabelSet(data[i][bi[i]].GroupLabels),
                           receiverName |-> data[i][bi[i]].Receiver,
                           deadline |-> ContextWithTimeout(i),
                           outcome |-> outcome])]
           /\ errs' = [errs EXCEPT ![i] = RecordError(@, err, outcome # "ok")]
           /\ Advance(i, outcome)
    /\ UNCHANGED <<receiver, failure, opts, calls, cfgs, hmaps, inst, logs, cloned, data, as, pre, sdata, subjs>>

(* line 112 *)
Return(i) ==
    /\ pc[i] = "batch"
    /\ bi[i] > Len(data[i])
    /\ pc' = [pc EXCEPT ![i] = "done"]
    /\ UNCHANGED <<receiver, failure, opts, calls, cfgs, hmaps, inst, logs, cloned, data, bi, ri, as, errs,
                   sent, pre, sdata, subjs>>

(* the caller has taken the returned errors; the call's frame is gone *)
Finish(i) ==
    /\ pc[i] = "done"
    /\ pc' = [pc EXCEPT ![i] = "idle"]
    /\ data' = [data EXCEPT ![i] = <<>>]
    /\ bi' = [bi EXCEPT ![i] = 1]
    /\ ri' = [ri EXCEPT ![i] = 1]
    /\ as' = [as EXCEPT ![i] = <<>>]
    /\ errs' = [errs EXCEPT ![i] = <<>>]
    /\ sent' = [sent EXCEPT ![i] = <<>>]
    /\ UNCHANGED <<receiver, failure, opts, calls, cfgs, hmaps, inst, logs, cloned, pre, sdata, subjs>>

(***************************************************************************)
(* Inputs.                                                                 *)
(***************************************************************************)
Addresses == <<"a@x", "b@x", "c@x", "d@x", "e@x", "f@x">>

ToLists == {SubSeq(Addresses, 1, n) : n \in 0..MaxDeliveries}

BaseConfig(hdr, tls) ==
    [NotifierConfig |-> "sendResolved",
     To |-> "base@x",
     From |-> "from@x",
     Hello |-> "hello",
     Smarthost |-> "smtp:25",
     AuthUsername |-> "user",
     AuthPassword |-> "pw",
     AuthSecret |-> "secret",
     AuthIdentity |-> "id",
     Headers |-> hdr,
     HTML |-> "html",
     Text |-> "text",
     RequireTLS |-> tls,
     TLSConfig |-> "tls"]

BaseHeaders == [k \in {"Reply-To"} |-> <<"r">>]

Alert(status, name) ==
    [Status |-> status,
     Labels |-> [k \in {S_alertname} |-> name],
     Annotations |-> [k \in {S_app} |-> S_x],
     StartsAt |-> 1,
     EndsAt |-> IF status = "resolved" THEN 2 ELSE 0,
     GeneratorURL |-> "http://prom"]

Batch1 ==
    [Receiver |-> "r1",
     Alerts |-> <<Alert("firing", S_HighCPU)>>,
     GroupLabels |-> [k \in {S_alertname} |-> S_HighCPU],
     CommonLabels |-> [k \in {S_namespace, S_alertname} |->
                          IF k = S_namespace THEN S_ns1 ELSE S_HighCPU],
     ExternalURL |-> "http://am"]

Batch2 ==
    [Receiver |-> "r2",
     Alerts |-> <<Alert("firing", S_x), Alert("resolved", S_y)>>,
     GroupLabels |-> [k \in {S_app} |-> S_x],
     CommonLabels |-> [k \in {S_app} |-> S_x],
     ExternalURL |-> ":bad"]

Batch3 ==
    [Receiver |-> "r3",
     Alerts |-> <<>>,
     GroupLabels |-> <<>>,
     CommonLabels |-> <<>>,
     ExternalURL |-> ""]

BatchSet == {Batch1, Batch2}

RECURSIVE SeqsUpTo(_, _)
SeqsUpTo(S, n) ==
    IF n = 0 THEN {<<>>}
    ELSE LET shorter == SeqsUpTo(S, n - 1)
         IN shorter \cup {Append(q, x) : q \in {t \in shorter : Len(t) = n - 1}, x \in S}

DataSet == SeqsUpTo(BatchSet, MaxDeliveries)

ExtraKeys == {S_app, S_env, S_job}
MaxExtraLabels == 2
ExtraVal(k) == IF k = S_env THEN S_y ELSE S_x

OptLabel(v) == {[has |-> FALSE, v |-> <<>>], [has |-> TRUE, v |-> <<>>],
                [has |-> TRUE, v |-> v]}

MkLabels(nsC, anC, ex) ==
    [k \in (IF nsC.has THEN {S_namespace} ELSE {})
           \cup (IF anC.has THEN {S_alertname} ELSE {}) \cup ex |->
        IF k = S_namespace THEN nsC.v
        ELSE IF k = S_alertname THEN anC.v
        ELSE ExtraVal(k)]

SubjectInputs ==
    {[Receiver |-> "r",
      Alerts |-> [n \in 1..Len(st) |-> [Status |-> st[n]]],
      GroupLabels |-> <<>>,
      CommonLabels |-> MkLabels(nsC, anC, ex),
      ExternalURL |-> ""] :
        st \in SeqsUpTo({"firing", "resolved"}, MaxAlerts),
        nsC \in OptLabel(S_ns1), anC \in OptLabel(S_HighCPU),
        ex \in {e \in SUBSET ExtraKeys : Cardinality(e) <= MaxExtraLabels}}

(***************************************************************************)
(* The notifier: construction and Notify calls.                            *)
(***************************************************************************)
IdleInit ==
    /\ calls = 0
    /\ inst = [i \in Instances |-> [state |-> "none"]]
    /\ logs = [i \in Instances |-> 0]
    /\ cloned = [i \in Instances |-> [kind |-> "none"]]
    /\ pc = [i \in Instances |-> "idle"]
    /\ data = [i \in Instances |-> <<>>]
    /\ bi = [i \in Instances |-> 1]
    /\ ri = [i \in Instances |-> 1]
    /\ as = [i \in Instances |-> <<>>]
    /\ errs = [i \in Instances |-> <<>>]
    /\ sent = [i \in Instances |-> <<>>]
    /\ pre = [i \in Instances |-> [To |-> "", Headers |-> [alloc |-> FALSE, m |-> NoMap]]]

Init ==
    /\ \/ /\ receiver = [shape |-> "Other", To |-> <<>>, EmailConfig |-> Nil]
          /\ cfgs = <<>>
          /\ hmaps = <<>>
       \/ /\ receiver \in {[shape |-> "Email", To |-> to, EmailConfig |-> Nil] :
                              to \in ToLists}
          /\ cfgs = <<>>
          /\ hmaps = <<>>
       \/ /\ receiver \in {[shape |-> "Email", To |-> to, EmailConfig |-> 1] :
                              to \in ToLists}
          /\ \E hdr \in {Nil, 1}, tls \in {Nil, 1} :
                /\ cfgs = <<BaseConfig(hdr, tls)>>
                /\ hmaps = IF hdr = Nil THEN <<>> ELSE <<BaseHeaders>>
    /\ opts = NoOpts
    /\ failure = "error"
    /\ IdleInit
    /\ sdata = Batch3
    /\ subjs = <<>>

Next ==
    \/ \E i \in Instances : NewEmailNotifier(i)
    \/ \E i \in Instances, d \in DataSet : Call(i, d)
    \/ \E i \in Instances : BeginBatch(i)
    \/ \E i \in Instances : SetTo(i)
    \/ \E i \in Instances : Deliver(i)
    \/ \E i \in Instances : Return(i)
    \/ \E i \in Instances : Finish(i)

Spec == Init /\ [][Next]_vars

(***************************************************************************)
(* Delivery deadlines: a Notifier built with and without the operator's    *)
(* timeout override, on a transport whose deliveries succeed, fail or run  *)
(* into their deadline in any mix.  e.Notify takes the context of line 94  *)
(* and returns when it is done or when that deadline passes, so a started  *)
(* delivery step always completes; the other steps are straight-line code. *)
(***************************************************************************)
TimeoutDataSet == SeqsUpTo({Batch1}, MaxDeliveries)

TimeoutInit ==
    /\ receiver \in {[shape |-> "Email", To |-> to, EmailConfig |-> 1] : to \in ToLists}
    /\ cfgs = <<BaseConfig(Nil, 1)>>
    /\ hmaps = <<>>
    /\ opts \in OptsSet
    /\ failure = "any"
    /\ IdleInit
    /\ sdata = Batch3
    /\ subjs = <<>>

TimeoutNext ==
    \/ \E i \in Instances : NewEmailNotifier(i)
    \/ \E i \in Instances, d \in TimeoutDataSet : Call(i, d)
    \/ \E i \in Instances : BeginBatch(i)
    \/ \E i \in Instances : SetTo(i)
    \/ \E i \in Instances : Deliver(i)
    \/ \E i \in Instances : Return(i)
    \/ \E i \in Instances : Finish(i)

(* a running Notify call keeps executing: each of its steps is taken once  *)
(* it is enabled                                                           *)
NotifyRuns ==
    \A i \in Instances :
        /\ WF_vars(BeginBatch(i))
        /\ WF_vars(SetTo(i))
        /\ WF_vars(Deliver(i))
        /\ WF_vars(Return(i))

TimeoutSpec == TimeoutInit /\ [][TimeoutNext]_vars /\ NotifyRuns

(***************************************************************************)
(* Concurrent callers: the Notifiers of the slots are built from the same  *)
(* receiver and then each runs one Notify call, the steps of the two calls *)
(* interleaved in any order.                                               *)
(***************************************************************************)
ConcToLists == {SubSeq(Addresses, 1, n) : n \in 1..2}

ConcDataSet == {<<Batch1>>, <<Batch2>>, <<Batch1, Batch2>>, <<Batch2, Batch1>>}

ConcInit ==
    /\ receiver \in {[shape |-> "Email", To |-> to, EmailConfig |-> 1] : to \in ConcToLists}
    /\ \E hdr \in {Nil, 1} :
          /\ cfgs = <<BaseConfig(hdr, 1)>>
          /\ hmaps = IF hdr = Nil THEN <<>> ELSE <<BaseHeaders>>
    /\ opts = NoOpts
    /\ failure = "error"
    /\ IdleInit
    /\ sdata = Batch3
    /\ subjs = <<>>

(* a Notify call made whatever the other Notifier is doing *)
ConcCall(i, d) ==
    /\ \A j \in Instances : inst[j].state # "none"
    /\ Enter(i, d)
    /\ UNCHANGED calls

ConcNext ==
    \/ \E i \in Instances : NewEmailNotifier(i)
    \/ \E i \in Instances, d \in ConcDataSet : ConcCall(i, d)
    \/ \E i \in Instances : BeginBatch(i)
    \/ \E i \in Instances : SetTo(i)
    \/ \E i \in Instances : Deliver(i)
    \/ \E i \in Instances : Return(i)

ConcSpec == ConcInit /\ [][ConcNext]_vars

(***************************************************************************)
(* The subject synthesizer on its own: repeated calls on one batch.        *)
(***************************************************************************)
SubjectInit ==
    /\ sdata \in SubjectInputs
    /\ subjs = <<>>
    /\ receiver = [shape |-> "Other", To |-> <<>>, EmailConfig |-> Nil]
    /\ cfgs = <<>>
    /\ hmaps = <<>>
    /\ opts = NoOpts
    /\ failure = "error"
    /\ IdleInit

GetSubjectCall ==
    /\ Len(subjs) < MaxSubjectCalls
    /\ \E order \in RangeOrders(sdata.CommonLabels) :
          subjs' = Append(subjs, getSubject(sdata, order))
    /\ UNCHANGED <<sdata, notifyVars>>

SubjectNext == GetSubjectCall

SubjectSpec == SubjectInit /\ [][SubjectNext]_vars

(***************************************************************************)
(* Properties of the subject synthesizer (checked under SubjectSpec).      *)
(***************************************************************************)
FiringCount == Cardinality({n \in DOMAIN sdata.Alerts : sdata.Alerts[n].Status = "firing"})
ResolvedCount == Cardinality({n \in DOMAIN sdata.Alerts : sdata.Alerts[n].Status = "resolved"})
NsOf == IF S_namespace \in DOMAIN sdata.CommonLabels
        THEN sdata.CommonLabels[S_namespace] ELSE <<>>
AnOf == IF S_alertname \in DOMAIN sdata.CommonLabels
        THEN sdata.CommonLabels[S_alertname] ELSE <<>>
OtherKeys == DOMAIN sdata.CommonLabels \ {S_namespace, S_alertname}

ExpectedPrefix ==
    (IF FiringCount > 0 THEN S_FiringOpen \o Itoa(FiringCount) \o <<"]", " ">> ELSE <<>>)
    \o (IF ResolvedCount > 0 THEN S_ResolvedOpen \o Itoa(ResolvedCount) \o <<"]", " ">>
        ELSE <<>>)

Occurs(ch, s) == \E n \in DOMAIN s : s[n] = ch

Alphabet == <<"a", "b", "c", "d", "e", "f", "g", "h", "i", "j", "k", "l", "m",
              "n", "o", "p", "q", "r", "s", "t", "u", "v", "w", "x", "y", "z">>
Rank(ch) == CHOOSE n \in DOMAIN Alphabet : Alphabet[n] = ch

RECURSIVE LexLess(_, _)
LexLess(a, b) ==
    IF Len(b) = 0 THEN FALSE
    ELSE IF Len(a) = 0 THEN TRUE
    ELSE IF a[1] = b[1] THEN LexLess(Tail(a), Tail(b))
    ELSE Rank(a[1]) < Rank(b[1])

(* key=value of the given keys in lexicographic key order, comma-joined *)
RECURSIVE SortedPairs(_, _)
SortedPairs(m, keys) ==
    IF keys = {} THEN <<>>
    ELSE LET k == CHOOSE x \in keys : \A y \in keys \ {x} : LexLess(x, y)
             rest == SortedPairs(m, keys \ {k})
         IN k \o <<"=">> \o m[k] \o (IF keys = {k} THEN <<>> ELSE <<",">> \o rest)

SortedLabelSuffix ==
    IF OtherKeys = {} THEN <<>>
    ELSE <<" ", "(">> \o SortedPairs(sdata.CommonLabels, OtherKeys) \o <<")">>

(* the part of a subject that comes from the remaining labels, for one of  *)
(* the orders in which they can be listed                                  *)
LabelSuffixes ==
    {WithLabels(<<>>, RangeLabels(<<>>, sdata.CommonLabels, o, 1)) :
        o \in Orders(OtherKeys)}

(* C4: repeated calls of getSubject on the same batch return the identical *)
(* string, and the remaining common labels appear as key=value joined by   *)
(* commas in lexicographic key order.                                      *)
C4_SubjectDeterministic ==
    /\ \A m, n \in DOMAIN subjs : subjs[m] = subjs[n]
    /\ \A n \in DOMAIN subjs : HasSuffix(subjs[n], SortedLabelSuffix)

GoldenSubject == <<"[", "F", "I", "R", "I", "N", "G", ":", "1", "]", " ", " ",
                   "n", "s", "1", "/", "H", "i", "g", "h", "C", "P", "U">>

(* C5: with f > 0 firing alerts, no resolved alert, non-empty namespace ns *)
(* and alertname an and no other common label, the subject is              *)
(* "[FIRING:f] " followed by " ns/an"; for one firing alert, ns1 and       *)
(* HighCPU it is "[FIRING:1]  ns1/HighCPU".                                *)
C5_FiringNamespaceAlertname ==
    \A n \in DOMAIN subjs :
        (/\ FiringCount > 0
         /\ ResolvedCount = 0
         /\ DOMAIN sdata.CommonLabels = {S_namespace, S_alertname}
         /\ NsOf # <<>>
         /\ AnOf # <<>>)
        => /\ subjs[n] = S_FiringOpen \o Itoa(FiringCount) \o <<"]", " ">>
                            \o <<" ">> \o NsOf \o <<"/">> \o AnOf
           /\ (FiringCount = 1 /\ NsOf = S_ns1 /\ AnOf = S_HighCPU)
                 => subjs[n] = GoldenSubject

C5_Witness ==
    /\ Len(subjs) = MaxSubjectCalls
    /\ FiringCount = 1
    /\ ResolvedCount = 0
    /\ DOMAIN sdata.CommonLabels = {S_namespace, S_alertname}
    /\ NsOf = S_ns1
    /\ AnOf = S_HighCPU
    /\ subjs[1] = GoldenSubject

(* C6: no alerts and no common labels give the empty subject; an absent or *)
(* empty namespace or alertname is left out: no '/' and no space is        *)
(* produced for it.                                                        *)
C6_AbsentPartsOmitted ==
    \A n \in DOMAIN subjs :
        /\ (sdata.Alerts = <<>> /\ DOMAIN sdata.CommonLabels = {}) => subjs[n] = <<>>
        /\ NsOf = <<>> =>
              \E suffix \in LabelSuffixes : subjs[n] = ExpectedPrefix \o AnOf \o suffix
        /\ AnOf = <<>> =>
              \E suffix \in LabelSuffixes :
                  subjs[n] = ExpectedPrefix
                                \o (IF NsOf = <<>> THEN <<>> ELSE <<" ">> \o NsOf)
                                \o suffix
        /\ (NsOf = <<>> \/ AnOf = <<>>) => ~Occurs("/", subjs[n])

C6_Witness ==
    /\ Len(subjs) > 0
    /\ sdata.Alerts = <<>>
    /\ S_namespace \in DOMAIN sdata.CommonLabels
    /\ NsOf = <<>>
    /\ AnOf = S_HighCPU
    /\ OtherKeys = {}
    /\ subjs[1] = S_HighCPU

Failed(log) == SelectSeq(log, LAMBDA e : e.outcome # "ok")

InBatch(log, b) == SelectSeq(log, LAMBDA e : e.batch = b)

(* the error of each failed delivery, in the order of the deliveries *)
ErrorsOf(log) ==
    [n \in 1..Len(Failed(log)) |->
        [batch |-> Failed(log)[n].batch, rcpt |-> Failed(log)[n].rcpt,
         to |-> Failed(log)[n].to, kind |-> Failed(log)[n].outcome]]

(* C1: one Notify call attempts exactly one delivery per (batch,           *)
(* recipient) pair, B*N in all, whatever fails, and returns as many errors *)
(* as deliveries failed, batch by batch.                                   *)
C1_OneAttemptPerPair ==
    \A i \in Instances :
        /\ \A m, n \in DOMAIN sent[i] :
              m # n => <<sent[i][m].batch, sent[i][m].rcpt>>
                          # <<sent[i][n].batch, sent[i][n].rcpt>>
        /\ pc[i] = "done" =>
              /\ Len(sent[i]) = Len(data[i]) * Len(inst[i].To)
              /\ \A b \in DOMAIN data[i], r \in DOMAIN inst[i].To :
                    \E n \in DOMAIN sent[i] :
                        /\ sent[i][n].batch = b
                        /\ sent[i][n].rcpt = r
                        /\ sent[i][n].to = inst[i].To[r]
              /\ Len(errs[i]) = Len(Failed(sent[i]))
              /\ \A b \in DOMAIN data[i] :
                    Len(SelectSeq(errs[i], LAMBDA e : e.batch = b))
                        = Len(Failed(InBatch(sent[i], b)))

C1_Witness ==
    /\ pc[1] = "done"
    /\ Len(data[1]) = 2
    /\ Len(inst[1].To) = 2
    /\ Len(sent[1]) = 4
    /\ sent[1][1].outcome = "error"
    /\ sent[1][2].outcome = "ok"
    /\ sent[1][3].outcome = "error"
    /\ sent[1][4].outcome = "error"
    /\ Len(errs[1]) = 3

(* C2: the Notifier's base config (destination and header map) is the same *)
(* after Notify returns as it was when Notify was called.                  *)
C2_BaseConfigUnchanged ==
    \A i \in Instances : pc[i] = "done" => ConfigView(Cfg(i)) = pre[i]

(* C3: setting the destination or a header entry on one clone changes      *)
(* neither another clone's nor the base's destination and headers, and no  *)
(* two configs share a header map.                                         *)
NoSharedHeaderMap ==
    \A c1, c2 \in DOMAIN cfgs :
        (c1 # c2 /\ cfgs[c1].Headers # Nil) => cfgs[c1].Headers # cfgs[c2].Headers

C3_ClonesIndependent ==
    [][/\ NoSharedHeaderMap
       /\ NoSharedHeaderMap'
       /\ \A c1, c2 \in DOMAIN cfgs :
             (c1 # c2 /\ ConfigView(c1)' # ConfigView(c1))
                => ConfigView(c2)' = ConfigView(c2)]_vars

C3_Witness ==
    /\ inst[1].state = "ready"
    /\ inst[2].state = "ready"
    /\ Cfg(1) # Cfg(2)
    /\ cfgs[1].Headers # Nil
    /\ ConfigView(Cfg(1)).To = "b@x"
    /\ "Subject" \in DOMAIN ConfigView(Cfg(1)).Headers.m
    /\ ConfigView(Cfg(2)) = [To |-> "", Headers |-> [alloc |-> TRUE, m |-> NoMap]]
    /\ ConfigView(1) = [To |-> "base@x", Headers |-> [alloc |-> TRUE, m |-> BaseHeaders]]

(* C8: the returned list is the delivery errors in batch order and, within *)
(* a batch, in recipient order; it is empty exactly when every delivery    *)
(* succeeded, and holds nothing but delivery errors of this call.          *)
C8_ErrorsInDeliveryOrder ==
    \A i \in Instances :
        /\ \A m, n \in DOMAIN sent[i] :
              m < n => \/ sent[i][m].batch < sent[i][n].batch
                       \/ /\ sent[i][m].batch = sent[i][n].batch
                          /\ sent[i][m].rcpt < sent[i][n].rcpt
        /\ errs[i] = ErrorsOf(sent[i])
        /\ pc[i] = "done" =>
              (errs[i] = <<>> <=> \A n \in DOMAIN sent[i] : sent[i][n].outcome = "ok")

C8_Witness ==
    /\ pc[2] = "done"
    /\ Len(sent[2]) = 4
    /\ Len(errs[2]) = 3
    /\ errs[2][1] = [batch |-> 1, rcpt |-> 1, to |-> "a@x", kind |-> "error"]
    /\ errs[2][2] = [batch |-> 1, rcpt |-> 2, to |-> "b@x", kind |-> "error"]
    /\ errs[2][3] = [batch |-> 2, rcpt |-> 2, to |-> "b@x", kind |-> "error"]

(* C9: NewEmailNotifier returns absent with exactly one reported error for *)
(* a receiver of the wrong shape, an absent base config or a template that *)
(* cannot be loaded, and returns a Notifier in every other case.           *)
C9_ConstructorOutcomes ==
    \A i \in Instances :
        inst[i].state # "none" =>
            /\ inst[i].state \in {"absent", "ready"}
            /\ inst[i].state = "absent" =>
                /\ logs[i] = 1
                /\ \/ inst[i].why = "shape" /\ receiver.shape # "Email"
                   \/ inst[i].why = "config" /\ receiver.EmailConfig = Nil
                   \/ inst[i].why = "template"
            /\ inst[i].state = "ready" => logs[i] = 0
            /\ (receiver.shape = "Other" \/ receiver.EmailConfig = Nil)
                  => inst[i].state = "absent"

(* C10: Clone returns absent exactly when the base is absent; for every    *)
(* other base, also one with unset optional fields, it returns a copy with *)
(* the base's origin, smarthost, authentication and body fields, an empty  *)
(* destination and an unset header map.                                    *)
C10_CloneTotal ==
    \A i \in Instances :
        cloned[i].kind # "none" =>
            /\ cloned[i].kind = "nil" <=> receiver.EmailConfig = Nil
            /\ receiver.EmailConfig # Nil =>
                /\ cloned[i].kind = "ok"
                /\ LET base == cfgs[receiver.EmailConfig]
                       copy == cloned[i].cfg
                   IN /\ copy.From = base.From
                      /\ copy.Hello = base.Hello
                      /\ copy.Smarthost = base.Smarthost
                      /\ copy.AuthUsername = base.AuthUsername
                      /\ copy.AuthPassword = base.AuthPassword
                      /\ copy.AuthSecret = base.AuthSecret
                      /\ copy.AuthIdentity = base.AuthIdentity
                      /\ copy.HTML = base.HTML
                      /\ copy.Text = base.Text
                      /\ copy.To = ""
                      /\ copy.Headers = Nil

(***************************************************************************)
(* Claims about deadlines and termination                                  *)
(***************************************************************************)
ConfiguredTimeout == IF opts.hasEmailTimeout THEN opts.Email ELSE DefaultSendTimeout

(* C11: every delivery is given the configured timeout in full, the        *)
(* operator's override when there is one and 3 seconds otherwise, however  *)
(* the deliveries before it ended.                                         *)
C11_FreshDeadlinePerDelivery ==
    \A i \in Instances :
        /\ inst[i].state = "ready" => inst[i].Timeout = ConfiguredTimeout
        /\ \A n \in DOMAIN sent[i] : sent[i][n].deadline = ConfiguredTimeout

(* the override is set; a timed out, a failed and a successful delivery    *)
(* are followed by a fourth one that still gets the whole timeout          *)
C11_Witness ==
    \E i \in Instances :
        /\ opts.hasEmailTimeout
        /\ Len(sent[i]) = 4
        /\ sent[i][1].outcome = "timeout"
        /\ sent[i][2].outcome = "error"
        /\ sent[i][3].outcome = "ok"
        /\ sent[i][4].deadline = opts.Email
        /\ opts.Email # DefaultSendTimeout

Running == {"batch", "to", "send"}

(* the deliveries and the errors of the pair (batch b, recipient r) *)
AttemptsOf(i, b, r) == {n \in DOMAIN sent[i] : sent[i][n].batch = b /\ sent[i][n].rcpt = r}

ErrorsFor(i, b, r) == {n \in DOMAIN errs[i] : errs[i][n].batch = b /\ errs[i][n].rcpt = r}

(* the pair the loops visit after (b, r) *)
NextPair(i, b, r) == IF r < Len(inst[i].To) THEN <<b, r + 1>> ELSE <<b + 1, 1>>

TimeoutRecordedOnce(i) ==
    \A n \in DOMAIN sent[i] :
        sent[i][n].outcome = "timeout" =>
            /\ AttemptsOf(i, sent[i][n].batch, sent[i][n].rcpt) = {n}
            /\ Cardinality(ErrorsFor(i, sent[i][n].batch, sent[i][n].rcpt)) = 1
            /\ \A e \in ErrorsFor(i, sent[i][n].batch, sent[i][n].rcpt) :
                  errs[i][e].kind = "timeout"
            /\ n < Len(sent[i]) =>
                  <<sent[i][n + 1].batch, sent[i][n + 1].rcpt>>
                      = NextPair(i, sent[i][n].batch, sent[i][n].rcpt)

(* C12: a Notify call that has started returns, also when every delivery   *)
(* times out, provided each delivery returns by its deadline; a timed out  *)
(* delivery is recorded as one error of its recipient, is not attempted     *)
(* again, and the next recipient follows.                                  *)
C12_NotifyTerminates ==
    /\ \A i \in Instances : (pc[i] \in Running) ~> (pc[i] = "done")
    /\ [](\A i \in Instances : TimeoutRecordedOnce(i))

(* a call of two batches to two recipients has returned with all four      *)
(* deliveries timed out                                                    *)
C12_Witness ==
    \E i \in Instances :
        /\ pc[i] = "done"
        /\ Len(data[i]) = 2
        /\ Len(inst[i].To) = 2
        /\ Len(sent[i]) = 4
        /\ \A n \in DOMAIN sent[i] : sent[i][n].outcome = "timeout"
        /\ Len(errs[i]) = 4

(***************************************************************************)
(* Claims about what a delivery is made with                               *)
(***************************************************************************)
(* what getSubject can return for batch d *)
SubjectsOf(d) == {getSubject(d, order) : order \in RangeOrders(d.CommonLabels)}

OwnDestinationAndSubject(i) ==
    \A n \in DOMAIN sent[i] :
        /\ sent[i][n].to = inst[i].To[sent[i][n].rcpt]
        /\ sent[i][n].headers.alloc
        /\ "Subject" \in DOMAIN sent[i][n].headers.m
        /\ sent[i][n].headers.m["Subject"] \in SubjectsOf(data[i][sent[i][n].batch])

(* C13: two Notifiers built from the same receiver have distinct configs   *)
(* and header maps, and however their Notify calls interleave every        *)
(* delivery goes to its own Notifier's current recipient with its own      *)
(* current batch's subject.                                                *)
C13_InstancesIsolated ==
    /\ \A i, j \in Instances :
          (i # j /\ inst[i].state = "ready" /\ inst[j].state = "ready") =>
              /\ inst[i].Config # inst[j].Config
              /\ cfgs[inst[i].Config].Headers # cfgs[inst[j].Config].Headers
    /\ \A i \in Instances : OwnDestinationAndSubject(i)

(* both calls are running on different batches and different recipients,   *)
(* and the first Notifier delivers after the second one has set its own     *)
(* destination and subject                                                 *)
C13_Witness ==
    /\ pc[1] = "to"
    /\ pc[2] = "send"
    /\ data[1] = <<Batch1>>
    /\ data[2] = <<Batch2>>
    /\ Len(sent[1]) = 1
    /\ sent[1][1].to = "a@x"
    /\ Len(sent[2]) = 1
    /\ ri[2] = 2
    /\ cfgs[Cfg(2)].To = "b@x"
    /\ cfgs[Cfg(1)].To = "a@x"
    /\ hmaps[cfgs[Cfg(1)].Headers]["Subject"] # hmaps[cfgs[Cfg(2)].Headers]["Subject"]

(* C14: the delivery to recipient r of batch b is made with destination r, *)
(* the subject getSubject returned for b as the only header, and the       *)
(* parsed external URL of b; nothing of another recipient or batch of the  *)
(* call shows in it.                                                       *)
C14_DeliverySeesOwnBatch ==
    \A i \in Instances :
        \A n \in DOMAIN sent[i] :
            LET b == sent[i][n].batch
            IN /\ sent[i][n].to = inst[i].To[sent[i][n].rcpt]
               /\ DOMAIN sent[i][n].headers.m = {"Subject"}
               /\ sent[i][n].headers.m["Subject"] \in SubjectsOf(data[i][b])
               /\ sent[i][n].url = URLParse(data[i][b].ExternalURL).url
               /\ sent[i][n].receiverName = data[i][b].Receiver
               /\ \A m \in DOMAIN sent[i] :
                     sent[i][m].batch = b =>
                         sent[i][m].headers.m["Subject"] = sent[i][n].headers.m["Subject"]

(* two batches to two recipients: the last delivery has the second         *)
(* recipient, and the second batch's subject and URL, which differ from    *)
(* the first delivery's                                                    *)
C14_Witness ==
    \E i \in Instances :
        /\ Len(sent[i]) = 4
        /\ data[i] = <<Batch1, Batch2>>
        /\ sent[i][4].batch = 2
        /\ sent[i][4].to = "b@x"
        /\ sent[i][1].to = "a@x"
        /\ sent[i][4].headers.m["Subject"] = getSubject(Batch2, <<S_app>>)
        /\ sent[i][1].headers.m["Subject"] = getSubject(Batch1, <<S_namespace, S_alertname>>)
        /\ sent[i][4].headers.m["Subject"] # sent[i][1].headers.m["Subject"]
        /\ sent[i][4].url # sent[i][1].url

(* the batches of a call whose external URL does not parse *)
BadURLBatches(i) == {b \in DOMAIN data[i] : URLParse(data[i][b].ExternalURL).err}

(* C15: a batch whose external URL does not parse is delivered to all its  *)
(* recipients with an absent URL, adds no error of its own to the result,  *)
(* and the batches after it are delivered as usual with their own URL.     *)
C15_BadURLFailsSoft ==
    \A i \in Instances :
        /\ \A n \in DOMAIN sent[i] :
              IF sent[i][n].batch \in BadURLBatches(i)
              THEN sent[i][n].url = NilURL
              ELSE sent[i][n].url = [raw |-> data[i][sent[i][n].batch].ExternalURL]
        /\ errs[i] = ErrorsOf(sent[i])
        /\ pc[i] = "done" =>
              \A b \in DOMAIN data[i], r \in DOMAIN inst[i].To :
                  (\E c \in BadURLBatches(i) : c <= b) =>
                      Cardinality(AttemptsOf(i, b, r)) = 1

(* a good, a bad and a good batch to one recipient, all delivered without  *)
(* error: the second delivery has no URL, the third has its own again      *)
C15_Witness ==
    \E i \in Instances :
        /\ pc[i] = "done"
        /\ data[i] = <<Batch1, Batch2, Batch1>>
        /\ Len(sent[i]) = 3
        /\ sent[i][1].url = [raw |-> "http://am"]
        /\ sent[i][2].url = NilURL
        /\ sent[i][3].url = [raw |-> "http://am"]
        /\ errs[i] = <<>>

(* C16: a Notifier that was returned has an allocated header map, with or  *)
(* without headers in the receiver's base config, before and after its     *)
(* Notify calls, and writing the subject never finds the map unset.        *)
C16_HeadersAllocated ==
    \A i \in Instances :
        /\ inst[i].state = "ready" =>
              /\ cfgs[inst[i].Config].Headers # Nil
              /\ cfgs[inst[i].Config].Headers \in DOMAIN hmaps
        /\ pc[i] # "panic"

(* the base config has no headers and a Notify call has written the        *)
(* subject and returned                                                    *)
C16_Witness ==
    \E i \in Instances :
        /\ inst[i].state = "ready"
        /\ cfgs[receiver.EmailConfig].Headers = Nil
        /\ pc[i] = "done"
        /\ Len(sent[i]) > 0
        /\ "Subject" \in DOMAIN hmaps[cfgs[inst[i].Config].Headers]

SameAlert(a, src) ==
    /\ DOMAIN a.Labels = DOMAIN src.Labels
    /\ \A k \in DOMAIN src.Labels : a.Labels[k] = src.Labels[k]
    /\ DOMAIN a.Annotations = DOMAIN src.Annotations
    /\ \A k \in DOMAIN src.Annotations : a.Annotations[k] = src.Annotations[k]
    /\ a.StartsAt = src.StartsAt
    /\ a.EndsAt = src.EndsAt
    /\ a.GeneratorURL = src.GeneratorURL

(* C17: the alerts a delivery is made with are the batch's alerts, firing  *)
(* and resolved, one for one and in order, with labels, annotations, start *)
(* and end time and generator URL as in the batch; all recipients of the   *)
(* batch get the same list.                                                *)
C17_AlertsVerbatim ==
    \A i \in Instances :
        \A n \in DOMAIN sent[i] :
            LET src == data[i][sent[i][n].batch].Alerts
            IN /\ Len(sent[i][n].alerts) = Len(src)
               /\ \A k \in DOMAIN src : SameAlert(sent[i][n].alerts[k], src[k])
               /\ \A m \in DOMAIN sent[i] :
                     sent[i][m].batch = sent[i][n].batch =>
                         sent[i][m].alerts = sent[i][n].alerts

(* a batch of a firing and a resolved alert delivered to two recipients *)
C17_Witness ==
    \E i \in Instances :
        /\ data[i] = <<Batch2>>
        /\ Len(sent[i]) = 2
        /\ sent[i][2].rcpt = 2
        /\ Len(sent[i][2].alerts) = 2
        /\ sent[i][2].alerts[1].EndsAt = 0
        /\ sent[i][2].alerts[2].EndsAt = 2
        /\ sent[i][2].alerts[2].Labels[S_alertname] = S_y

====
